---- MODULE Spec2Model ----
(***************************************************************************)
(* Model of the agent orchestration loop of src/orchestrator.py:           *)
(*   Orchestrator._parse_response  (the response parser, a pure function)  *)
(*   Orchestrator._agent_loop      (the bounded model/tool loop)           *)
(*   Orchestrator._execute_tool    (tool dispatch)                         *)
(*                                                                         *)
(* A reply text is a sequence of tokens.  The eight protocol tags are      *)
(* tokens of their own, so that the regular expressions of the parser      *)
(* (leftmost, non-greedy, DOTALL) and str.find can be computed exactly as  *)
(* the code computes them on the text.                                     *)
(***************************************************************************)
EXTENDS Integers, Sequences, FiniteSets, TLC

VARIABLES
    pc,                \* position of the run: "idle", "loop", "awaiting", "dispatching", "done"
    max_iterations,    \* argument of _agent_loop
    iteration_count,   \* local of _agent_loop
    is_final_call,     \* local of _agent_loop
    conversation,      \* context["conversation"]
    agent_response,    \* text handed to _parse_response
    parsed_response,   \* value returned by _parse_response
    tool_name,         \* tool named by the reply being handled
    result,            \* value returned by _agent_loop (or the exception that left it)
    requests,          \* number of model requests issued in this run
    executions,        \* number of tool invocations in this run
    iter_executions,   \* number of tool invocations in the current iteration
    dispatched,        \* sequence of the tool names invoked in this run
    employee_id,       \* context["employee_id"]
    possible_duplicate_data,  \* the upstream duplicate hint, or None
    store,             \* the employee records of the key-value store
    invocation,        \* the last call made by _execute_tool: tool, keyword arguments, outcome
    task_pc,           \* per receipt: position of its orchestration task
    task_iter,         \* per receipt: iteration_count of its task
    call_stuck,        \* per receipt: its pending external call never returns
    loop_thread,       \* the task that occupies the event loop thread, or "none"
    task_tool,         \* per receipt: the tool its task is inside, or "none"
    task_read,         \* per receipt: current_amount read by update_expense_budget
    task_updates,      \* per receipt: number of budget updates its task has written
    receipt_type,      \* context["receipt_type"]
    system_prompt,     \* local of _agent_loop (line 257)
    messages,          \* the messages of the last model request
    prompt_generations, \* number of calls of _generate_system_prompt in this run
    up_pc,             \* per upload: position of orchestrate() before the agent loop
    up_hint,           \* per upload: matching_file_id of its duplicate hint, or None
    saved_receipts,    \* file ids of the receipt records in the store
    stage_store,       \* per file and stage: the stored checkpoint entry
    stage_log,         \* per file and stage: details of the calls that returned True
    stage_last,        \* the last update_stage call and what it returned
    stage_calls        \* number of update_stage calls made

\* the context of the run, fixed while it lasts
ctxVars == <<employee_id, possible_duplicate_data, receipt_type>>

\* the system prompt and the request built from it
promptVars == <<system_prompt, messages, prompt_generations>>

vars == <<pc, max_iterations, iteration_count, is_final_call, conversation,
          agent_response, parsed_response, tool_name, result, requests,
          executions, iter_executions, dispatched, employee_id,
          possible_duplicate_data, store, invocation,
          task_pc, task_iter, call_stuck, loop_thread,
          task_tool, task_read, task_updates,
          receipt_type, system_prompt, messages, prompt_generations,
          up_pc, up_hint, saved_receipts,
          stage_store, stage_log, stage_last, stage_calls>>

\* the state of one run
runVars == <<pc, max_iterations, iteration_count, is_final_call, conversation,
             agent_response, parsed_response, tool_name, result, requests,
             executions, iter_executions, dispatched, employee_id,
             possible_duplicate_data, store, invocation,
             receipt_type, system_prompt, messages, prompt_generations>>

\* the tasks of the receipts processed at the same time
taskVars == <<task_pc, task_iter, call_stuck, loop_thread,
              task_tool, task_read, task_updates>>

\* the state of one run without the store, which the tasks share
loopVars == <<pc, max_iterations, iteration_count, is_final_call, conversation,
              agent_response, parsed_response, tool_name, result, requests,
              executions, iter_executions, dispatched, employee_id,
              possible_duplicate_data, invocation,
              receipt_type, system_prompt, messages, prompt_generations>>

\* the uploads on their way to the agent loop
uploadVars == <<up_pc, up_hint, saved_receipts>>

\* the stage checkpoints
stageVars == <<stage_store, stage_log, stage_last, stage_calls>>

\* the variables of the other specifications, untouched by a single run
otherVars == <<taskVars, uploadVars, stageVars>>

-----------------------------------------------------------------------------
(* Bounds of the model *)

MaxIter == 3     \* largest max_iterations explored
MaxSegs == 3     \* largest number of segments of a reply text given to the parser
MaxCalls == 3    \* largest number of update_stage calls explored

-----------------------------------------------------------------------------
(* Text of a reply *)

T_TOOL_O   == "<tool>"
T_TOOL_C   == "</tool>"
T_REAS_O   == "<reasoning>"
T_REAS_C   == "</reasoning>"
T_PARAM_O  == "<parameters>"
T_PARAM_C  == "</parameters>"
T_FINAL_O  == "<final_tool_call>"
T_FINAL_C  == "</final_tool_call>"
WS         == " "

\* message.content of a reply that carries no text (Python None)
PyNone == <<"None">>

J_OBJ   == "{\"k\": 1}"
J_UPD   == "{\"employee_id\": \"E1\", \"expense_type\": \"FOOD_EXPENSE\", \"amount\": 50, \"increment\": true}"
J_MAIL  == "{\"email_id\": \"e1@corp\", \"subject\": \"s\", \"content\": \"c\"}"
J_SPOOF == "{\"employee_id\": \"E1\", \"file_id\": \"F9\", \"max_iterations\": 99, \"final_tool_call\": \"x\"}"
J_ARR   == "[1]"
J_NULL  == "null"
J_NAN   == "NaN"             \* accepted by json.loads, not a JSON text
J_BAD   == "{bad"
J_DEEP  == "[[[[...deep"     \* nesting beyond the interpreter's recursion limit

\* self.available_tools (keys)
available_tools == {"get_employee_data", "update_expense_budget",
                    "check_location_proximity", "is_duplicate_receipt",
                    "send_email"}

-----------------------------------------------------------------------------
(* String helpers, on token sequences *)

\* str.find(tok, from): index of the first occurrence at or after from, 0 if none
FirstIdx(text, tok, from) ==
    IF \E i \in from..Len(text) : text[i] = tok
    THEN CHOOSE i \in from..Len(text) :
            text[i] = tok /\ \A j \in from..(i - 1) : text[j] # tok
    ELSE 0

\* tok in text
Contains(text, tok) == FirstIdx(text, tok, 1) # 0

\* re.search(open + "(.*?)" + close, text[from:], re.DOTALL):
\* the leftmost opening tag that is followed by a closing tag, and the
\* nearest closing tag after it; group is group(1)
ReSearch(text, open, close, from) ==
    LET i == FirstIdx(text, open, from)
        j == IF i = 0 THEN 0 ELSE FirstIdx(text, close, i + 1)
    IN  IF i # 0 /\ j # 0
        THEN [found |-> TRUE, start |-> i, end |-> j,
              group |-> SubSeq(text, i + 1, j - 1)]
        ELSE [found |-> FALSE, start |-> 0, end |-> 0, group |-> <<>>]

\* len(re.findall(open + ".*?" + close, text, re.DOTALL)): non-overlapping matches
RECURSIVE FindAllCount(_, _, _, _)
FindAllCount(text, open, close, from) ==
    LET m == ReSearch(text, open, close, from)
    IN  IF m.found THEN 1 + FindAllCount(text, open, close, m.end + 1) ELSE 0

\* str.strip()
Strip(s) ==
    LET keep == {i \in 1..Len(s) : s[i] # WS}
    IN  IF keep = {} THEN <<>>
        ELSE LET lo == CHOOSE i \in keep : \A j \in keep : i <= j
                 hi == CHOOSE i \in keep : \A j \in keep : j <= i
             IN  SubSeq(s, lo, hi)

\* str.lower() of one token
LowerTok(t) == CASE t = "TRUE" -> "true"
                 [] t = "Yes"  -> "yes"
                 [] OTHER      -> t
Lower(s) == [i \in 1..Len(s) |-> LowerTok(s[i])]

\* json.loads(s) on a stripped text: the decoded value, a JSONDecodeError,
\* or another exception (RecursionError)
JsonValue(kind, members) == [kind |-> kind, members |-> members]

JsonLoads(s) ==
    IF Len(s) = 1 /\ s[1] = J_OBJ
    THEN [ok |-> "value", value |-> JsonValue("object", {<<"k", "1">>})]
    ELSE IF Len(s) = 1 /\ s[1] = J_UPD
    THEN [ok |-> "value",
          value |-> JsonValue("object", {<<"employee_id", "E1">>,
                                         <<"expense_type", "FOOD_EXPENSE">>,
                                         <<"amount", "50">>, <<"increment", "true">>})]
    ELSE IF Len(s) = 1 /\ s[1] = J_MAIL
    THEN [ok |-> "value",
          value |-> JsonValue("object", {<<"email_id", "e1@corp">>,
                                         <<"subject", "s">>, <<"content", "c">>})]
    ELSE IF Len(s) = 1 /\ s[1] = J_SPOOF
    THEN [ok |-> "value",
          value |-> JsonValue("object", {<<"employee_id", "E1">>, <<"file_id", "F9">>,
                                         <<"max_iterations", "99">>,
                                         <<"final_tool_call", "x">>})]
    ELSE IF Len(s) = 1 /\ s[1] = J_ARR
    THEN [ok |-> "value", value |-> JsonValue("array", {})]
    ELSE IF Len(s) = 1 /\ s[1] = J_NULL
    THEN [ok |-> "value", value |-> JsonValue("null", {})]
    ELSE IF Len(s) = 1 /\ s[1] = J_NAN
    THEN [ok |-> "value", value |-> JsonValue("number", {})]
    ELSE IF Len(s) = 1 /\ s[1] \in {"true", "false"}
    THEN [ok |-> "value", value |-> JsonValue("boolean", {})]
    ELSE IF Len(s) >= 1 /\ \A i \in 1..Len(s) : s[i] = "1"
    THEN [ok |-> "value", value |-> JsonValue("number", {})]
    ELSE IF Len(s) >= 1 /\ s[1] = J_DEEP
    THEN [ok |-> "raise", value |-> JsonValue("none", {})]
    ELSE [ok |-> "JSONDecodeError", value |-> JsonValue("none", {})]

-----------------------------------------------------------------------------
(* Orchestrator._parse_response *)

NoValue == JsonValue("none", {})
EmptyMap == JsonValue("object", {})

ErrorResult(msg) ==
    [type |-> "error", tool |-> <<>>, parameters |-> NoValue,
     final_tool_call |-> FALSE, reasoning |-> <<>>, message |-> msg]

ReasoningResult(text) ==
    [type |-> "reasoning", tool |-> <<>>, parameters |-> NoValue,
     final_tool_call |-> FALSE, reasoning |-> text, message |-> ""]

ToolCallResult(tool, parameters, final, reasoning) ==
    [type |-> "tool_call", tool |-> tool, parameters |-> parameters,
     final_tool_call |-> final, reasoning |-> reasoning, message |-> ""]

\* an exception leaving the body of the try block
Raised(exc) ==
    [type |-> "raise", tool |-> <<>>, parameters |-> NoValue,
     final_tool_call |-> FALSE, reasoning |-> <<>>, message |-> exc]

\* lines 163-172: keep the text before the second "<tool>" when the text
\* holds more than one tool block
Truncate(response) ==
    LET tool_tags        == FindAllCount(response, T_TOOL_O, T_TOOL_C, 1)
        first_tool_start == FirstIdx(response, T_TOOL_O, 1)
        next_tool_start  == FirstIdx(response, T_TOOL_O, first_tool_start + 1)
    IN  IF tool_tags > 1 /\ next_tool_start # 0
        THEN SubSeq(response, 1, next_tool_start - 1)
        ELSE response

\* lines 192-201: the parameters of the reply
ExtractParameters(response) ==
    LET params_match == ReSearch(response, T_PARAM_O, T_PARAM_C, 1)
    IN  IF params_match.found
        THEN LET loaded == JsonLoads(Strip(params_match.group))
             IN  IF loaded.ok = "value" THEN [ok |-> "value", value |-> loaded.value]
                 ELSE [ok |-> loaded.ok, value |-> NoValue]
        ELSE [ok |-> "value", value |-> EmptyMap]

\* the final flag read without str.lower()
ExtractFinalCaseSensitive(response, tool) ==
    LET final_match == ReSearch(response, T_FINAL_O, T_FINAL_C, 1)
        stated == IF final_match.found
                  THEN Strip(final_match.group) \in {<<"true">>, <<"yes">>, <<"1">>}
                  ELSE FALSE
    IN  IF tool = <<"send_email">> THEN TRUE ELSE stated

\* lines 204-214: the final flag of the reply
ExtractFinal(response, tool) ==
    LET final_match == ReSearch(response, T_FINAL_O, T_FINAL_C, 1)
        stated == IF final_match.found
                  THEN Lower(Strip(final_match.group)) \in {<<"true">>, <<"yes">>, <<"1">>}
                  ELSE FALSE
    IN  IF tool = <<"send_email">> THEN TRUE ELSE stated

\* lines 162-226: the body of the try block
ParseBody(response0) ==
    IF response0 = PyNone THEN Raised("TypeError")
    ELSE
    LET response        == Truncate(response0)
        reasoning_match == ReSearch(response, T_REAS_O, T_REAS_C, 1)
        tool_match      == ReSearch(response, T_TOOL_O, T_TOOL_C, 1)
        tool            == Strip(tool_match.group)
        params          == ExtractParameters(response)
    IN  IF ~Contains(response, T_TOOL_O) /\ Contains(response, T_REAS_O)
           /\ reasoning_match.found
        THEN ReasoningResult(Strip(reasoning_match.group))
        ELSE IF ~tool_match.found
        THEN ErrorResult("No tool specified in the response")
        ELSE IF params.ok = "JSONDecodeError"
        THEN ErrorResult("Invalid JSON in parameters")
        ELSE IF params.ok = "raise"
        THEN Raised("RecursionError")
        ELSE ToolCallResult(tool, params.value, ExtractFinal(response, tool),
                            IF reasoning_match.found
                            THEN Strip(reasoning_match.group) ELSE <<>>)

\* the parser without the handler of line 228: the exception leaves it
ParseResponseNoHandler(response) == ParseBody(response)

\* lines 161-230: the try block and its handler
ParseResponse(response) ==
    LET r == ParseBody(response)
    IN  IF r.type = "raise" THEN ErrorResult("Error parsing response") ELSE r

\* the value of parsed_response before any reply was parsed
NotParsed ==
    [type |-> "none", tool |-> <<>>, parameters |-> NoValue,
     final_tool_call |-> FALSE, reasoning |-> <<>>, message |-> ""]

-----------------------------------------------------------------------------
(* Replies of the model and outcomes of the tools, as the loop sees them *)

ToolBlock(name)    == <<T_TOOL_O, name, T_TOOL_C>>
ParamBlock(json)   == <<T_PARAM_O, json, T_PARAM_C>>
FinalBlock(flag)   == <<T_FINAL_O, flag, T_FINAL_C>>
ReasoningBlock     == <<T_REAS_O, "ok", T_REAS_C>>

\* texts the model-turn producer may return to the loop
Replies ==
    { PyNone,
      <<"ok">>,
      ReasoningBlock,
      ToolBlock("get_employee_data") \o ParamBlock(J_OBJ) \o FinalBlock("false"),
      ReasoningBlock \o ToolBlock("update_expense_budget") \o FinalBlock("true"),
      ToolBlock("check_location_proximity") \o ParamBlock(J_ARR),
      ToolBlock("get_employee_data") \o ParamBlock(J_BAD),
      ToolBlock("send_email") \o ParamBlock(J_MAIL) \o FinalBlock("false"),
      ToolBlock("update_expense_budget") \o ParamBlock(J_UPD) \o FinalBlock("false"),
      ToolBlock("get_employee_data") \o ParamBlock(J_SPOOF),
      ToolBlock("send_email"),
      ToolBlock("send_email") \o ParamBlock(J_NULL) \o FinalBlock("true"),
      ToolBlock("bogus") \o ParamBlock(J_ARR),
      ToolBlock("bogus") \o FinalBlock("true"),
      ToolBlock("is_duplicate_receipt") \o ToolBlock("send_email") \o FinalBlock("true") }

\* what _execute_tool hands back: the tool's value, a failure value of the
\* tool (False, None), or the error payload built from an exception
ToolOutcomes == {"value", "failure", "error"}

\* a turn appended under the role of the model
TurnAsAssistant(role, kind, tool, content) ==
    [role |-> "assistant", kind |-> kind, tool |-> tool, content |-> content]

Turn(role, kind, tool, content) ==
    [role |-> role, kind |-> kind, tool |-> tool, content |-> content]

\* possible_duplicate_data when the receipt parser found no candidate
NoneValue == "None"

\* valid_types of the receipt parser (receipt_parser.py 38-67)
ReceiptTypes == {"FOOD_EXPENSE", "TRAVEL_EXPENSE", "TECH_EXPENSE"}

\* the initial prompt with the duplicate instruction whatever the hint
InitialUserTurnAlwaysDup(rtype, emp, dup) ==
    [role |-> "user", kind |-> "initial_user_prompt", tool |-> <<>>,
     content |-> <<rtype, emp, "duplicate_instruction">>]

\* lines 272-285: the template names the receipt type and the employee id and
\* holds the duplicate instruction when a hint was passed
InitialUserTurn(rtype, emp, dup) ==
    Turn("user", "initial_user_prompt", <<>>,
         <<rtype, emp>> \o (IF dup # NoneValue THEN <<"duplicate_instruction">> ELSE <<>>))

\* orchestrator.py 402-458: _generate_system_prompt; the text depends on the
\* receipt type (content and rule follow from it) and on the hint
GenerateSystemPrompt(rtype, dup) ==
    <<rtype>> \o (IF dup # NoneValue THEN <<"is_duplicate_receipt">> ELSE <<>>)

NoPrompt == <<"unset">>

\* no prompt has been generated and no request built
NoRequest ==
    /\ system_prompt = NoPrompt
    /\ messages = <<>>
    /\ prompt_generations = 0

SystemTurn(prompt) ==
    [role |-> "system", kind |-> "system_prompt", tool |-> <<>>, content |-> prompt]

\* the request made of the system prompt and the last turn only
BuildMessagesLastOnly(prompt, conv) == <<SystemTurn(prompt), conv[Len(conv)]>>

\* lines 291-298: messages = [system] + every turn of the conversation
BuildMessages(prompt, conv) == <<SystemTurn(prompt)>> \o conv

NoResult == [status |-> "none", tool |-> <<>>, exception |-> ""]

\* tool_name in self.available_tools
IsRegistered(tool) == Len(tool) = 1 /\ tool[1] \in available_tools

-----------------------------------------------------------------------------
(* The context of a run, the key-value store and the tools of agents.py *)

Employees     == {"E1", "E2"}
\* valid_types of update_expense_budget
ExpenseTypes  == {"FOOD_EXPENSE", "TRAVEL_EXPENSE", "TECH_EXPENSE"}
ContextFileId == "F1"          \* context["file_id"]
OriginImage   == "img:F1"      \* origin_image_base_64
DuplicateData == "dup:F0"      \* a duplicate hint of the receipt parser

\* a dict is a set of <<key, value>> pairs with distinct keys
HasKey(m, k)    == \E p \in m : p[1] = k
Get(m, k)       == (CHOOSE p \in m : p[1] = k)[2]
DelKey(m, k)    == {p \in m : p[1] # k}
SetKey(m, k, v) == DelKey(m, k) \cup {<<k, v>>}
BoolStr(b)      == IF b THEN "True" ELSE "False"

\* the records the store starts with: employee E2 exists, E1 may be missing
EmployeeRecord(exists) ==
    [exists |-> exists,
     current_expenses |-> [t \in ExpenseTypes |-> IF exists /\ t = "FOOD_EXPENSE" THEN 20 ELSE 0]]
InitialStores ==
    {[e \in Employees |-> EmployeeRecord(e = "E2" \/ e1)] : e1 \in BOOLEAN}

\* what the service behind a tool does when it is called: it answers, it
\* answers negatively (no geocode, non-2xx mail status), or it raises
ToolBehaviours == {"ok", "refused", "raises"}

\* the positional parameters with is_duplicate_receipt taking none
RequiredArgsNoImage(tool) ==
    CASE tool = "get_employee_data"        -> {"employee_id"}
      [] tool = "update_expense_budget"    -> {"employee_id", "expense_type"}
      [] tool = "check_location_proximity" -> {"src_address", "dest_address"}
      [] tool = "send_email"               -> {"email_id", "subject", "content"}
      [] OTHER                             -> {}

\* the positional parameters of the tool functions (all take **kwargs too)
RequiredArgs(tool) ==
    CASE tool = "get_employee_data"        -> {"employee_id"}
      [] tool = "update_expense_budget"    -> {"employee_id", "expense_type"}
      [] tool = "check_location_proximity" -> {"src_address", "dest_address"}
      [] tool = "is_duplicate_receipt"     -> {"origin_image_base_64", "possible_duplicate_data"}
      [] tool = "send_email"               -> {"email_id", "subject", "content"}
      [] OTHER                             -> {}

Called(outcome, st) == [outcome |-> outcome, store |-> st, ran |-> TRUE, keys |-> {}]

\* a call that went to the store for the record employee:<emp>
CalledOn(outcome, st, emp) ==
    [outcome |-> outcome, store |-> st, ran |-> TRUE, keys |-> {emp}]

\* agents.py 224-254
GetEmployeeData(kwargs, env, st) ==
    LET emp == Get(kwargs, "employee_id")
    IN  IF env = "raises" THEN CalledOn("raise", st, emp)
        ELSE IF st[emp].exists THEN CalledOn("value", st, emp)
        ELSE CalledOn("failure", st, emp)

\* the amounts float() accepts; any other text raises ValueError
AmountParses(v) == v \in {"0", "30", "50", "-20", "12.7"}

\* int(float(amount))
IntOfAmount(v) ==
    CASE v = "50" -> 50 [] v = "30" -> 30 [] v = "-20" -> -20 [] v = "12.7" -> 12
      [] OTHER -> 0

\* max(0, x) without the floor
MaxSecond(a, b) == b

Max(a, b) == IF a >= b THEN a ELSE b

\* agents.py 256-323
UpdateExpenseBudget(kwargs, env, st) ==
    LET emp       == Get(kwargs, "employee_id")
        etype     == Get(kwargs, "expense_type")
        amount    == IF HasKey(kwargs, "amount") THEN IntOfAmount(Get(kwargs, "amount")) ELSE 0
        increment == IF HasKey(kwargs, "increment") THEN Get(kwargs, "increment") = "true" ELSE TRUE
        current   == st[emp].current_expenses[etype]
        updated   == IF increment THEN current + amount ELSE Max(0, current - amount)
    IN  IF env = "raises" THEN CalledOn("failure", st, emp)
        ELSE IF ~st[emp].exists THEN CalledOn("failure", st, emp)
        ELSE IF etype \notin ExpenseTypes THEN CalledOn("failure", st, emp)
        ELSE IF HasKey(kwargs, "amount") /\ ~AmountParses(Get(kwargs, "amount"))
        THEN CalledOn("failure", st, emp)
        ELSE CalledOn("value", [st EXCEPT ![emp].current_expenses[etype] = updated], emp)

\* agents.py 325-389
CheckLocationProximity(kwargs, env, st) ==
    IF env = "ok" THEN Called("value", st) ELSE Called("failure", st)

\* agents.py 391-419
IsDuplicateReceipt(kwargs, env, st) == Called("value", st)

\* agents.py 176-222
SendEmail(kwargs, env, st) ==
    IF env = "ok" THEN Called("value", st) ELSE Called("failure", st)

\* orchestrator.py 140-143: tool_func(**exec_params); a missing positional
\* argument raises TypeError before the body runs
InvokeTool(tool, kwargs, env, st) ==
    IF \E a \in RequiredArgs(tool) : ~HasKey(kwargs, a)
    THEN [outcome |-> "raise", store |-> st, ran |-> FALSE, keys |-> {}]
    ELSE CASE tool = "get_employee_data"        -> GetEmployeeData(kwargs, env, st)
           [] tool = "update_expense_budget"    -> UpdateExpenseBudget(kwargs, env, st)
           [] tool = "check_location_proximity" -> CheckLocationProximity(kwargs, env, st)
           [] tool = "is_duplicate_receipt"     -> IsDuplicateReceipt(kwargs, env, st)
           [] OTHER                             -> SendEmail(kwargs, env, st)

\* orchestrator.py 351: the loop writes its flag into the parameters
ToolParams(parameters, final) ==
    SetKey(parameters.members, "final_tool_call", BoolStr(final))

\* the keyword arguments with an employee_id of the reply kept
ExecParamsReplyWins(file, emp, maxit, parameters, image, dup) ==
    LET stripped == DelKey(parameters, "final_tool_call")
        withDup  == IF dup # NoneValue
                    THEN SetKey(SetKey(stripped, "origin_image_base_64", image),
                                "possible_duplicate_data", dup)
                    ELSE stripped
        withEmp  == IF HasKey(withDup, "employee_id") THEN withDup
                    ELSE SetKey(withDup, "employee_id", emp)
    IN  SetKey(SetKey(withEmp, "file_id", file), "max_iterations", ToString(maxit))

\* the keyword arguments with the context values only filling the gaps
ExecParamsNoOverride(file, emp, maxit, parameters, image, dup) ==
    LET stripped == DelKey(parameters, "final_tool_call")
        withDup  == IF dup # NoneValue
                    THEN SetKey(SetKey(stripped, "origin_image_base_64", image),
                                "possible_duplicate_data", dup)
                    ELSE stripped
        Fill(m, k, v) == IF HasKey(m, k) THEN m ELSE SetKey(m, k, v)
    IN  Fill(Fill(Fill(withDup, "file_id", file), "employee_id", emp),
             "max_iterations", ToString(maxit))

\* the keyword arguments with the image and the duplicate payload always added
ExecParamsAlwaysImage(file, emp, maxit, parameters, image, dup) ==
    SetKey(SetKey(SetKey(SetKey(SetKey(DelKey(parameters, "final_tool_call"),
        "origin_image_base_64", image), "possible_duplicate_data", dup),
        "file_id", file), "employee_id", emp), "max_iterations", ToString(maxit))

\* orchestrator.py 128-138: the keyword arguments of the call
ExecParams(file, emp, maxit, parameters, image, dup) ==
    LET stripped == DelKey(parameters, "final_tool_call")
        withDup  == IF dup # NoneValue
                    THEN SetKey(SetKey(stripped, "origin_image_base_64", image),
                                "possible_duplicate_data", dup)
                    ELSE stripped
    IN  SetKey(SetKey(SetKey(withDup, "file_id", file), "employee_id", emp),
               "max_iterations", ToString(maxit))

Executed(tool, kwargs, call, outcome) ==
    [tool |-> tool, kwargs |-> kwargs, outcome |-> outcome, store |-> call.store,
     raised |-> call.outcome = "raise", ran |-> call.ran, keys |-> call.keys]

\* _execute_tool without the handler of line 146: the exception leaves it
ExecuteToolNoHandler(file, emp, maxit, tool, parameters, image, dup, env, st) ==
    LET kwargs == ExecParams(file, emp, maxit, parameters, image, dup)
        call   == InvokeTool(tool, kwargs, env, st)
    IN  Executed(tool, kwargs, call, call.outcome)

\* orchestrator.py 103-148: _execute_tool; an exception of the call becomes
\* the payload {"error": ...}
ExecuteTool(file, emp, maxit, tool, parameters, image, dup, env, st) ==
    LET kwargs == ExecParams(file, emp, maxit, parameters, image, dup)
        call   == InvokeTool(tool, kwargs, env, st)
    IN  Executed(tool, kwargs, call,
                 IF call.outcome = "raise" THEN "error" ELSE call.outcome)

NoInvocation ==
    [tool |-> "", kwargs |-> {}, outcome |-> "none", raised |-> FALSE, ran |-> FALSE,
     keys |-> {}]

\* the receipts whose orchestration tasks share the event loop (main.py 156)
Receipts == {"F1", "F2"}

\* the receipts uploaded at the same time (main.py 119-162)
Uploads == {"F1", "F2", "F3"}

\* nothing has been uploaded before
NoUploads ==
    /\ up_pc = [u \in Uploads |-> "uploaded"]
    /\ up_hint = [u \in Uploads |-> NoneValue]
    /\ saved_receipts = {}

\* the keys files:<file_id> / stage:<stage> of the checkpoints
StageFiles == {"F1", "F2"}
StageNumbers == {5, 6}
StageKeys == StageFiles \X StageNumbers
StageDetails == {"d1", "d2"}

NoEntry == [kind |-> "absent", items |-> <<>>]

NoStageCall == [file_id |-> NoneValue, stage |-> 0, details |-> "", returned |-> FALSE]

\* no checkpoint has been written
NoStages ==
    /\ stage_store = [k \in StageKeys |-> NoEntry]
    /\ stage_log = [k \in StageKeys |-> <<>>]
    /\ stage_last = NoStageCall
    /\ stage_calls = 0

\* no orchestration task has been created
NoTasks ==
    /\ task_pc = [r \in Receipts |-> "ready"]
    /\ task_iter = [r \in Receipts |-> 0]
    /\ call_stuck = [r \in Receipts |-> FALSE]
    /\ loop_thread = "none"
    /\ task_tool = [r \in Receipts |-> "none"]
    /\ task_read = [r \in Receipts |-> 0]
    /\ task_updates = [r \in Receipts |-> 0]
    /\ NoUploads
    /\ NoStages

-----------------------------------------------------------------------------
(* Orchestrator._agent_loop *)

Init ==
    /\ pc = "idle"
    /\ max_iterations \in 0..MaxIter
    /\ iteration_count = 0
    /\ is_final_call = FALSE
    /\ conversation = <<>>
    /\ agent_response = <<>>
    /\ parsed_response = NotParsed
    /\ tool_name = <<>>
    /\ result = NoResult
    /\ requests = 0
    /\ executions = 0
    /\ iter_executions = 0
    /\ dispatched = <<>>
    /\ employee_id \in Employees
    /\ possible_duplicate_data \in {NoneValue, DuplicateData}
    /\ store \in InitialStores
    /\ invocation = NoInvocation
    /\ receipt_type = "FOOD_EXPENSE"
    /\ NoRequest
    /\ NoTasks

\* lines 251-285: the locals are set and an empty conversation is seeded
StartRun ==
    /\ pc = "idle"
    /\ pc' = "loop"
    /\ is_final_call' = FALSE
    /\ iteration_count' = 0
    /\ system_prompt' = GenerateSystemPrompt(receipt_type, possible_duplicate_data)
    /\ prompt_generations' = prompt_generations + 1
    /\ conversation' = IF conversation = <<>>
                       THEN <<InitialUserTurn(receipt_type, employee_id,
                                              possible_duplicate_data)>>
                       ELSE conversation
    /\ UNCHANGED <<max_iterations, agent_response, parsed_response, tool_name,
                   result, requests, executions, iter_executions, dispatched>>
    /\ UNCHANGED <<ctxVars, store, invocation, otherVars, messages>>

\* lines 391-400: the value returned once the while loop is left
LoopExitResult ==
    IF iteration_count >= max_iterations
    THEN [status |-> "timeout", tool |-> <<>>, exception |-> ""]
    ELSE [status |-> "completed", tool |-> <<>>, exception |-> ""]

\* line 287: the loop condition
LoopCondition == ~is_final_call /\ iteration_count < max_iterations

\* the loop test with the increment of line 288 left out
LoopTestNoCount ==
    /\ pc = "loop"
    /\ IF LoopCondition
       THEN /\ requests' = requests + 1
            /\ iter_executions' = 0
            /\ messages' = BuildMessages(system_prompt, conversation)
            /\ pc' = "awaiting"
            /\ UNCHANGED <<result, iteration_count>>
       ELSE /\ result' = LoopExitResult
            /\ pc' = "done"
            /\ UNCHANGED <<iteration_count, requests, iter_executions, messages>>
    /\ UNCHANGED <<max_iterations, is_final_call, conversation, agent_response,
                   parsed_response, tool_name, executions, dispatched>>
    /\ UNCHANGED <<ctxVars, store, invocation, otherVars>>
    /\ UNCHANGED <<system_prompt, prompt_generations>>

\* lines 287-310 and 391-400: the loop test; either the next model request
\* is issued or the loop is left and the run returns
LoopTest ==
    /\ pc = "loop"
    /\ IF LoopCondition
       THEN /\ iteration_count' = iteration_count + 1
            /\ requests' = requests + 1
            /\ iter_executions' = 0
            /\ messages' = BuildMessages(system_prompt, conversation)
            /\ pc' = "awaiting"
            /\ UNCHANGED result
       ELSE /\ result' = LoopExitResult
            /\ pc' = "done"
            /\ UNCHANGED <<iteration_count, requests, iter_executions, messages>>
    /\ UNCHANGED <<max_iterations, is_final_call, conversation, agent_response,
                   parsed_response, tool_name, executions, dispatched>>
    /\ UNCHANGED <<ctxVars, store, invocation, otherVars>>
    /\ UNCHANGED <<system_prompt, prompt_generations>>

\* line 351: tool_params["final_tool_call"] = ... raises TypeError unless
\* the parameters are a dict
ItemAssignmentRaises(parameters) == parameters.kind # "object"

\* lines 313-362 and 384-389: the reply arrives, is parsed and appended;
\* the error, reasoning and unknown-tool branches finish the iteration, the
\* known-tool branch starts the dispatch
\* conversation.append(turn) with the last turn replaced instead
AppendTurnOverwrite(conv, turn) ==
    IF conv = <<>> THEN <<turn>> ELSE [conv EXCEPT ![Len(conv)] = turn]

\* conversation.append(turn) left out
AppendTurnDropped(conv, turn) == conv

\* lines 320, 327, 337, 365, 385: conversation.append(turn)
AppendTurn(conv, turn) == Append(conv, turn)

ModelReplies(text) ==
    /\ pc = "awaiting"
    /\ LET parsed    == ParseResponse(text)
           assistant == Turn("assistant", "agent_response", <<>>, text)
           conv      == AppendTurn(conversation, assistant)
       IN  /\ agent_response' = text
           /\ parsed_response' = parsed
           /\ IF parsed.type = "error"
              THEN /\ conversation' = AppendTurn(conv, Turn("user", "response_error", <<>>, <<>>))
                   /\ pc' = "loop"
                   /\ UNCHANGED <<is_final_call, tool_name, result, executions,
                                  iter_executions, dispatched>>
              ELSE IF parsed.type = "reasoning"
              THEN /\ conversation' = AppendTurn(conv, Turn("user", "validation_result", <<>>, <<>>))
                   /\ pc' = "loop"
                   /\ UNCHANGED <<is_final_call, tool_name, result, executions,
                                  iter_executions, dispatched>>
              ELSE /\ tool_name' = parsed.tool
                   /\ is_final_call' = parsed.final_tool_call
                   /\ IF IsRegistered(parsed.tool)
                      THEN IF ItemAssignmentRaises(parsed.parameters)
                           THEN /\ conversation' = conv
                                /\ result' = [status |-> "raised", tool |-> <<>>,
                                              exception |-> "TypeError"]
                                /\ pc' = "done"
                                /\ UNCHANGED <<executions, iter_executions, dispatched>>
                           ELSE /\ conversation' = conv
                                /\ executions' = executions + 1
                                /\ iter_executions' = iter_executions + 1
                                /\ dispatched' = Append(dispatched, parsed.tool[1])
                                /\ pc' = "dispatching"
                                /\ UNCHANGED result
                      ELSE /\ conversation' = AppendTurn(conv, Turn("user", "tool_error", parsed.tool, <<>>))
                           /\ pc' = "loop"
                           /\ UNCHANGED <<result, executions, iter_executions, dispatched>>
    /\ UNCHANGED <<max_iterations, iteration_count, requests>>
    /\ UNCHANGED <<ctxVars, store, invocation, otherVars>>
    /\ UNCHANGED promptVars

\* lines 301-313: the model request raises (transport failure, no choices);
\* nothing in _agent_loop catches it
ModelRaises ==
    /\ pc = "awaiting"
    /\ result' = [status |-> "raised", tool |-> <<>>, exception |-> "ModelRequestError"]
    /\ pc' = "done"
    /\ UNCHANGED <<max_iterations, iteration_count, is_final_call, conversation,
                   agent_response, parsed_response, tool_name, requests,
                   executions, iter_executions, dispatched>>
    /\ UNCHANGED <<ctxVars, store, invocation, otherVars>>
    /\ UNCHANGED promptVars

\* a loop that goes on after a failed final call
FinalAfterDispatchNever(tool, final) == FALSE

\* lines 371-374: send_email always ends the loop
FinalAfterDispatch(tool, final) == IF tool = <<"send_email">> THEN TRUE ELSE final

\* lines 354-383: _execute_tool hands back its result, which is appended as
\* the tool-result turn; a final call returns
ToolReturns(env) ==
    /\ pc = "dispatching"
    /\ LET done == ExecuteTool(ContextFileId, employee_id, max_iterations, tool_name[1],
                               ToolParams(parsed_response.parameters, is_final_call),
                               OriginImage, possible_duplicate_data, env, store)
       IN  /\ store' = done.store
           /\ invocation' = [tool |-> done.tool, kwargs |-> done.kwargs,
                              outcome |-> done.outcome, raised |-> done.raised,
                              ran |-> done.ran, keys |-> done.keys]
           /\ IF done.outcome = "raise"
              THEN /\ result' = [status |-> "raised", tool |-> <<>>, exception |-> "ToolError"]
                   /\ pc' = "done"
                   /\ UNCHANGED <<conversation, is_final_call>>
              ELSE /\ conversation' = AppendTurn(conversation,
                                             Turn("user", "tool_result", tool_name,
                                                  <<done.outcome>>))
                   /\ is_final_call' = FinalAfterDispatch(tool_name, is_final_call)
                   /\ IF is_final_call'
                      THEN /\ result' = [status |-> "completed", tool |-> tool_name,
                                         exception |-> ""]
                           /\ pc' = "done"
                      ELSE /\ pc' = "loop"
                           /\ UNCHANGED result
    /\ UNCHANGED <<max_iterations, iteration_count, agent_response, parsed_response,
                   tool_name, requests, executions, iter_executions, dispatched>>
    /\ UNCHANGED <<ctxVars, promptVars, otherVars>>

Next ==
    \/ StartRun
    \/ LoopTest
    \/ \E text \in Replies : ModelReplies(text)
    \/ ModelRaises
    \/ \E env \in ToolBehaviours : ToolReturns(env)

Spec == Init /\ [][Next]_vars

-----------------------------------------------------------------------------
(* The parser on its own: every text of at most MaxSegs segments *)

ToolNames == {"get_employee_data", "send_email", "bogus"}

Segments ==
    {ToolBlock(n) : n \in ToolNames}
    \cup {<<T_TOOL_O, WS, "send_email", WS, T_TOOL_C>>}
    \cup {ParamBlock(j) : j \in {J_OBJ, J_ARR, J_NULL, J_NAN, J_BAD, J_DEEP}}
    \cup {<<T_PARAM_O, T_PARAM_C>>}
    \cup {FinalBlock(f) : f \in {"true", "false", "TRUE", "1"}}
    \cup {<<T_FINAL_O, WS, "Yes", WS, T_FINAL_C>>}
    \cup {ReasoningBlock}
    \cup {<<T_TOOL_O>>, <<T_TOOL_O, "bogus">>, <<T_TOOL_C>>, <<T_REAS_O>>, <<"ok">>}

RECURSIVE TextsUpTo(_)
TextsUpTo(n) ==
    IF n = 0 THEN {<<>>}
    ELSE LET shorter == TextsUpTo(n - 1)
         IN  shorter \cup {t \o seg : t \in shorter, seg \in Segments}

Texts == TextsUpTo(MaxSegs) \cup {PyNone}

InitParse ==
    /\ pc = "parse"
    /\ agent_response \in Texts
    /\ parsed_response = NotParsed
    /\ max_iterations = 0
    /\ iteration_count = 0
    /\ is_final_call = FALSE
    /\ conversation = <<>>
    /\ tool_name = <<>>
    /\ result = NoResult
    /\ requests = 0
    /\ executions = 0
    /\ iter_executions = 0
    /\ dispatched = <<>>
    /\ employee_id = "E1"
    /\ possible_duplicate_data = NoneValue
    /\ store = [e \in Employees |-> EmployeeRecord(TRUE)]
    /\ invocation = NoInvocation
    /\ receipt_type = "FOOD_EXPENSE"
    /\ NoRequest
    /\ NoTasks

\* line 317: parsed_response = self._parse_response(agent_response)
ParseText ==
    /\ pc = "parse"
    /\ parsed_response' = ParseResponse(agent_response)
    /\ pc' = "parsed"
    /\ UNCHANGED <<max_iterations, iteration_count, is_final_call, conversation,
                   agent_response, tool_name, result, requests, executions,
                   iter_executions, dispatched>>
    /\ UNCHANGED <<ctxVars, store, invocation, otherVars>>
    /\ UNCHANGED promptVars

NextParse == ParseText

SpecParse == InitParse /\ [][NextParse]_vars

-----------------------------------------------------------------------------
(* The start of a run for any context handed to _agent_loop *)

\* turns a caller may have left in context["conversation"]
PriorTurns ==
    {[role |-> "user", kind |-> "validation_result", tool |-> <<>>, content |-> <<>>],
     [role |-> "assistant", kind |-> "agent_response", tool |-> <<>>, content |-> <<"ok">>],
     [role |-> "user", kind |-> "tool_error", tool |-> <<"bogus">>, content |-> <<>>]}

PriorConversations ==
    {<<>>} \cup {<<a>> : a \in PriorTurns} \cup {<<a, b>> : a \in PriorTurns, b \in PriorTurns}

InitStart ==
    /\ pc = "idle"
    /\ max_iterations \in 0..MaxIter
    /\ iteration_count = 0
    /\ is_final_call = FALSE
    /\ conversation \in PriorConversations
    /\ agent_response = <<>>
    /\ parsed_response = NotParsed
    /\ tool_name = <<>>
    /\ result = NoResult
    /\ requests = 0
    /\ executions = 0
    /\ iter_executions = 0
    /\ dispatched = <<>>
    /\ employee_id \in Employees
    /\ possible_duplicate_data \in {NoneValue, DuplicateData}
    /\ store = [e \in Employees |-> EmployeeRecord(TRUE)]
    /\ invocation = NoInvocation
    /\ receipt_type \in ReceiptTypes
    /\ NoRequest
    /\ NoTasks

NextStart == StartRun

SpecStart == InitStart /\ [][NextStart]_vars

-----------------------------------------------------------------------------
(* update_expense_budget called with any arguments *)

\* the arguments a caller may pass
BudgetCalls ==
    {{<<"employee_id", e>>, <<"expense_type", t>>, <<"amount", a>>, <<"increment", i>>} :
        e \in Employees,
        t \in ExpenseTypes \cup {"OTHER_EXPENSE"},
        a \in {"0", "30", "50", "abc"},
        i \in {"true", "false"}}

\* stores with a low or a higher FOOD_EXPENSE total, with and without E1
BudgetStores ==
    {[e \in Employees |->
        [exists |-> e = "E2" \/ e1,
         current_expenses |->
            [t \in ExpenseTypes |-> IF t = "FOOD_EXPENSE" THEN food ELSE 40]]] :
        e1 \in BOOLEAN, food \in {0, 20}}

InitBudget ==
    /\ pc = "call"
    /\ max_iterations = 0
    /\ iteration_count = 0
    /\ is_final_call = FALSE
    /\ conversation = <<>>
    /\ agent_response = <<>>
    /\ parsed_response = NotParsed
    /\ tool_name = <<>>
    /\ result = NoResult
    /\ requests = 0
    /\ executions = 0
    /\ iter_executions = 0
    /\ dispatched = <<>>
    /\ employee_id = "E1"
    /\ possible_duplicate_data = NoneValue
    /\ store \in BudgetStores
    /\ \E kwargs \in BudgetCalls :
         invocation = [NoInvocation EXCEPT !.tool = "update_expense_budget",
                                           !.kwargs = kwargs]
    /\ receipt_type = "FOOD_EXPENSE"
    /\ NoRequest
    /\ NoTasks

\* agents.py 256-323: the call is made and returns
CallUpdateExpenseBudget(env) ==
    /\ pc = "call"
    /\ LET call == InvokeTool(invocation.tool, invocation.kwargs, env, store)
       IN  /\ store' = call.store
           /\ invocation' = [invocation EXCEPT !.outcome = call.outcome,
                                               !.raised = call.outcome = "raise",
                                               !.ran = call.ran,
                                               !.keys = call.keys]
    /\ pc' = "returned"
    /\ UNCHANGED <<max_iterations, iteration_count, is_final_call, conversation,
                   agent_response, parsed_response, tool_name, result, requests,
                   executions, iter_executions, dispatched>>
    /\ UNCHANGED <<ctxVars, promptVars, otherVars>>

NextBudget == \E env \in ToolBehaviours : CallUpdateExpenseBudget(env)

SpecBudget == InitBudget /\ [][NextBudget]_vars

-----------------------------------------------------------------------------
(* Orchestrator.orchestrate before the agent loop: identical receipts
   uploaded at the same time *)

InitUpload ==
    /\ pc = "idle"
    /\ max_iterations = 0
    /\ iteration_count = 0
    /\ is_final_call = FALSE
    /\ conversation = <<>>
    /\ agent_response = <<>>
    /\ parsed_response = NotParsed
    /\ tool_name = <<>>
    /\ result = NoResult
    /\ requests = 0
    /\ executions = 0
    /\ iter_executions = 0
    /\ dispatched = <<>>
    /\ employee_id = "E1"
    /\ possible_duplicate_data = NoneValue
    /\ store = [e \in Employees |-> EmployeeRecord(TRUE)]
    /\ invocation = NoInvocation
    /\ receipt_type = "FOOD_EXPENSE"
    /\ NoRequest
    /\ NoTasks

\* the check looking at the store after the upload's own record was saved
StoredReceiptsWithOwn(u, saved) == saved \cup {u}

\* embeddings_matcher.py 98-126: get_stored_receipts, the records the check
\* of upload u compares with
StoredReceipts(u, saved) == saved

\* receipt_parser.py 160-188, embeddings_matcher.py 146-214: the similarity
\* check; the receipts are identical, so any stored record reaches the
\* threshold and the most similar one is named
CheckDuplicate(u) ==
    /\ up_pc[u] = "uploaded"
    /\ up_pc' = [up_pc EXCEPT ![u] = "checked"]
    /\ IF StoredReceipts(u, saved_receipts) = {}
       THEN up_hint' = [up_hint EXCEPT ![u] = NoneValue]
       ELSE \E f \in StoredReceipts(u, saved_receipts) :
              up_hint' = [up_hint EXCEPT ![u] = f]
    /\ UNCHANGED saved_receipts
    /\ UNCHANGED <<runVars, taskVars, stageVars>>

\* orchestrator.py 61-69, embeddings_matcher.py 51-96: save_receipt; an
\* exception inside it is swallowed and nothing is stored
SaveReceipt(u) ==
    /\ up_pc[u] = "checked"
    /\ \E ok \in BOOLEAN :
         /\ saved_receipts' = IF ok THEN saved_receipts \cup {u} ELSE saved_receipts
         /\ up_pc' = [up_pc EXCEPT ![u] = IF ok THEN "saved" ELSE "not_saved"]
    /\ UNCHANGED up_hint
    /\ UNCHANGED <<runVars, taskVars, stageVars>>

NextUpload == \E u \in Uploads : CheckDuplicate(u) \/ SaveReceipt(u)

SpecUpload == InitUpload /\ [][NextUpload]_vars

-----------------------------------------------------------------------------
(* AgentsWorker.update_stage called any number of times *)

InitStages == InitUpload

\* the entry replaced by the new details
StageEntryOverwrite(entry, details) == [kind |-> "object", items |-> <<details>>]

\* agents.py 447-468: the entry after the call: a single object first, a
\* list of the old and the new object next, a longer list from then on
StageEntry(entry, details) ==
    IF entry.kind = "absent" THEN [kind |-> "object", items |-> <<details>>]
    ELSE IF entry.kind = "list" THEN [kind |-> "list", items |-> Append(entry.items, details)]
    ELSE [kind |-> "list", items |-> entry.items \o <<details>>]

\* agents.py 421-474: update_stage
UpdateStage(file, stage, details, env) ==
    /\ stage_calls < MaxCalls
    /\ stage_calls' = stage_calls + 1
    /\ IF file = NoneValue \/ env = "raises"
       THEN /\ stage_last' = [file_id |-> file, stage |-> stage, details |-> details,
                              returned |-> FALSE]
            /\ UNCHANGED <<stage_store, stage_log>>
       ELSE /\ stage_last' = [file_id |-> file, stage |-> stage, details |-> details,
                              returned |-> TRUE]
            /\ stage_store' = [stage_store EXCEPT
                                 ![<<file, stage>>] = StageEntry(@, details)]
            /\ stage_log' = [stage_log EXCEPT ![<<file, stage>>] = Append(@, details)]
    /\ UNCHANGED <<runVars, taskVars, uploadVars>>

NextStages ==
    \E file \in StageFiles \cup {NoneValue}, stage \in StageNumbers,
       details \in StageDetails, env \in {"ok", "raises"} :
        UpdateStage(file, stage, details, env)

SpecStages == InitStages /\ [][NextStages]_vars

-----------------------------------------------------------------------------
(* Several receipts on one event loop: upload_receipt creates one task per
   receipt (main.py 156); a task runs on the event loop thread until it
   awaits something that suspends it *)

InitTasks ==
    /\ pc = "idle"
    /\ max_iterations = MaxIter
    /\ iteration_count = 0
    /\ is_final_call = FALSE
    /\ conversation = <<>>
    /\ agent_response = <<>>
    /\ parsed_response = NotParsed
    /\ tool_name = <<>>
    /\ result = NoResult
    /\ requests = 0
    /\ executions = 0
    /\ iter_executions = 0
    /\ dispatched = <<>>
    /\ employee_id = "E1"
    /\ possible_duplicate_data = NoneValue
    /\ store = [e \in Employees |-> EmployeeRecord(TRUE)]
    /\ invocation = NoInvocation
    /\ receipt_type = "FOOD_EXPENSE"
    /\ NoRequest
    /\ NoTasks

\* a task can only move while no other task occupies the event loop thread
LoopThreadFree(r) == loop_thread \in {"none", r}

\* the tool call handed to a worker thread, leaving the event loop free
ToolCallOffThread(r) == "none"

\* line 143: result = tool_func(**exec_params); every registered tool is a
\* plain function, so the call runs on the event loop thread
ToolCallThread(r) == r

\* the tools a task may be told to call: the budget update and any other
TaskTools == {"update_expense_budget", "send_email"}

\* the amount of the budget update of each receipt
Amount(r) == IF r = "F1" THEN 50 ELSE 30

\* agents.py 288: current_amount of the employee of both receipts
StoredTotal == store[employee_id].current_expenses["FOOD_EXPENSE"]

\* lines 287-310: the while test passes and the model request is handed to a
\* worker thread (asyncio.to_thread); the task is suspended until it returns
RequestModel(r) ==
    /\ LoopThreadFree(r)
    /\ task_pc[r] = "ready"
    /\ task_iter[r] < MaxIter
    /\ task_iter' = [task_iter EXCEPT ![r] = @ + 1]
    /\ task_pc' = [task_pc EXCEPT ![r] = "requesting"]
    /\ \E stuck \in BOOLEAN : call_stuck' = [call_stuck EXCEPT ![r] = stuck]
    /\ UNCHANGED <<loop_thread, task_tool, task_read, task_updates, store>>
    /\ UNCHANGED <<loopVars, uploadVars, stageVars>>

\* lines 287, 392-398: the ceiling is reached
TaskTimesOut(r) ==
    /\ LoopThreadFree(r)
    /\ task_pc[r] = "ready"
    /\ task_iter[r] >= MaxIter
    /\ task_pc' = [task_pc EXCEPT ![r] = "done"]
    /\ UNCHANGED <<task_iter, call_stuck, loop_thread, task_tool, task_read,
                   task_updates, store>>
    /\ UNCHANGED <<loopVars, uploadVars, stageVars>>

\* lines 313-341: the reply has arrived, the task resumes on the event loop
\* thread; an Error or Reasoning reply sends it back to the while test
ReplyPasses(r) ==
    /\ LoopThreadFree(r)
    /\ task_pc[r] = "requesting"
    /\ ~call_stuck[r]
    /\ task_pc' = [task_pc EXCEPT ![r] = "ready"]
    /\ UNCHANGED <<task_iter, call_stuck, loop_thread, task_tool, task_read,
                   task_updates, store>>
    /\ UNCHANGED <<loopVars, uploadVars, stageVars>>

\* lines 343-362, 140-143: the reply names a tool and the task calls it;
\* update_expense_budget begins by reading the record (agents.py 271-288)
ReplyDispatches(r) ==
    /\ LoopThreadFree(r)
    /\ task_pc[r] = "requesting"
    /\ ~call_stuck[r]
    /\ task_pc' = [task_pc EXCEPT ![r] = "in_tool"]
    /\ loop_thread' = ToolCallThread(r)
    /\ \E tool \in TaskTools :
         /\ task_tool' = [task_tool EXCEPT ![r] = tool]
         /\ task_read' = IF tool = "update_expense_budget"
                         THEN [task_read EXCEPT ![r] = StoredTotal]
                         ELSE task_read
    /\ \E stuck \in BOOLEAN : call_stuck' = [call_stuck EXCEPT ![r] = stuck]
    /\ UNCHANGED <<task_iter, task_updates, store>>
    /\ UNCHANGED <<loopVars, uploadVars, stageVars>>

\* lines 143-145, 365-383: the tool returns; update_expense_budget has
\* written the record back (agents.py 290-319); the run ends after a final
\* call
ToolCallReturns(r) ==
    /\ LoopThreadFree(r)
    /\ task_pc[r] = "in_tool"
    /\ ~call_stuck[r]
    /\ \E final \in BOOLEAN :
         task_pc' = [task_pc EXCEPT ![r] = IF final THEN "done" ELSE "ready"]
    /\ loop_thread' = IF loop_thread = r THEN "none" ELSE loop_thread
    /\ task_tool' = [task_tool EXCEPT ![r] = "none"]
    /\ IF task_tool[r] = "update_expense_budget"
       THEN /\ store' = [store EXCEPT
                          ![employee_id].current_expenses["FOOD_EXPENSE"] =
                              task_read[r] + Amount(r)]
            /\ task_updates' = [task_updates EXCEPT ![r] = @ + 1]
       ELSE UNCHANGED <<store, task_updates>>
    /\ UNCHANGED <<task_iter, call_stuck, task_read>>
    /\ UNCHANGED <<loopVars, uploadVars, stageVars>>

TaskStep(r) ==
    \/ RequestModel(r)
    \/ TaskTimesOut(r)
    \/ ReplyPasses(r)
    \/ ReplyDispatches(r)
    \/ ToolCallReturns(r)

NextTasks == \E r \in Receipts : TaskStep(r)

SpecTasks == InitTasks /\ [][NextTasks]_vars

-----------------------------------------------------------------------------
(* Properties of the agent loop (checked under Spec) *)

\* the assistant turns of the conversation and what the parser makes of them
AssistantTurns == {i \in 1..Len(conversation) : conversation[i].role = "assistant"}
ParsedTurn(i)  == ParseResponse(conversation[i].content)
IsFinalToolCall(p) == p.type = "tool_call" /\ p.final_tool_call
NoFinalEmitted == \A i \in AssistantTurns : ~IsFinalToolCall(ParsedTurn(i))
OnlyPasses     == \A i \in AssistantTurns : ParsedTurn(i).type \in {"error", "reasoning"}
LastTurn       == conversation[Len(conversation)]
\* the run was left although every model request was answered
EndedOnReplies == pc = "done" /\ result.exception # "ModelRequestError"

\* C1: a run issues at most max_iterations model requests, and it stops at
\* the first iteration whose parsed reply is a tool call with final flag
\* true or when the iteration counter reaches max_iterations: no request is
\* issued after a final tool call, and a run that has ended has seen one of
\* the two.
C1_StopsAtFinalOrCeiling ==
    /\ requests <= max_iterations
    /\ pc = "awaiting" => NoFinalEmitted
    /\ EndedOnReplies =>
          \/ IsFinalToolCall(parsed_response)
          \/ iteration_count = max_iterations

\* C2: a reply naming send_email, whatever its final flag, makes the loop
\* dispatch send_email once and end with status completed; nothing is
\* requested or dispatched after a send_email dispatch.
C2_SendEmailEndsRun ==
    /\ (parsed_response.type = "tool_call" /\ parsed_response.tool = <<"send_email">>)
          => /\ pc \in {"dispatching", "done"}
             /\ Len(dispatched) >= 1 /\ dispatched[Len(dispatched)] = "send_email"
             /\ pc = "done" => result.status = "completed"
    /\ \A i \in 1..Len(dispatched) : dispatched[i] = "send_email" => i = Len(dispatched)
    /\ Cardinality({i \in 1..Len(dispatched) : dispatched[i] = "send_email"}) <= 1

\* C3: at most one tool is executed per iteration, an iteration whose reply
\* parses to Error or Reasoning executes none, and after N passes through the
\* reformat or validation branches only, the iteration counter is N and no
\* tool was executed.
C3_OneToolPerIteration ==
    /\ iter_executions <= 1
    /\ parsed_response.type \in {"error", "reasoning"} => iter_executions = 0
    /\ (pc = "loop" /\ OnlyPasses) =>
          /\ iteration_count = Cardinality(AssistantTurns)
          /\ executions = 0

\* C3 witness: two passes (one reformat, one validation) are behind the loop
C3_Witness ==
    /\ pc = "loop"
    /\ OnlyPasses
    /\ Cardinality(AssistantTurns) = 2
    /\ \E i \in AssistantTurns : ParsedTurn(i).type = "error"
    /\ \E i \in AssistantTurns : ParsedTurn(i).type = "reasoning"
    /\ iteration_count = 2

\* C4: a reply naming a tool outside the registry, whatever its final flag,
\* dispatches nothing, appends one USER turn naming the tool, and the loop
\* goes on with the next iteration unless the ceiling is reached; it never
\* ends the run as completed.
C4_UnknownToolContinues ==
    (pc \in {"loop", "done"} /\ parsed_response.type = "tool_call"
       /\ ~IsRegistered(parsed_response.tool)) =>
          /\ iter_executions = 0
          /\ LastTurn = Turn("user", "tool_error", parsed_response.tool, <<>>)
          /\ (pc = "loop" /\ iteration_count < max_iterations) => LoopCondition
          /\ result.status # "completed"

\* C5: a run returns status completed only after a registered tool whose
\* effective final flag was true was dispatched in the last iteration, and
\* the result names that tool.
C5_CompletedNamesFinalTool ==
    result.status = "completed" =>
        /\ iter_executions = 1
        /\ is_final_call
        /\ IsRegistered(result.tool)
        /\ result.tool = <<dispatched[Len(dispatched)]>>

\* C6: with max_iterations >= 1 and a model that never emits a final tool
\* call, the run returns timeout after exactly max_iterations round trips;
\* a final tool call dispatched in iteration max_iterations gives completed.
C6_TimeoutAfterCeiling ==
    /\ (EndedOnReplies /\ max_iterations >= 1 /\ NoFinalEmitted) =>
          /\ result.status = "timeout"
          /\ requests = max_iterations
          /\ Cardinality(AssistantTurns) = max_iterations
    /\ (pc = "done" /\ iteration_count = max_iterations
          /\ iter_executions = 1 /\ is_final_call) => result.status = "completed"

\* C7: no exception crosses the loop boundary: every run that ends returns
\* a structured result with status completed or timeout.
C7_NoExceptionCrosses ==
    pc = "done" => result.status \in {"completed", "timeout"}

-----------------------------------------------------------------------------
(* Properties of the parser (checked under SpecParse) *)

ToolBlockCount(text)  == FindAllCount(text, T_TOOL_O, T_TOOL_C, 1)
FirstToolBlock(text)  == ReSearch(text, T_TOOL_O, T_TOOL_C, 1)
SecondToolBlock(text) == ReSearch(text, T_TOOL_O, T_TOOL_C, FirstToolBlock(text).end + 1)
\* the text in front of the second tool block
BeforeSecondToolBlock(text) == SubSeq(text, 1, SecondToolBlock(text).start - 1)
HasToolBlock(text)      == ReSearch(text, T_TOOL_O, T_TOOL_C, 1).found
HasReasoningBlock(text) == ReSearch(text, T_REAS_O, T_REAS_C, 1).found
FirstParamBlock(text)   == ReSearch(text, T_PARAM_O, T_PARAM_C, 1)

\* C8: for every reply text holding two or more tool blocks, parse returns a
\* ToolCall whose tool name is the content of the first tool block, whatever
\* follows it; parameters and final flag that occur only after the start of
\* the second tool block are ignored.
C8_FirstToolBlockWins ==
    (pc = "parsed" /\ ToolBlockCount(agent_response) >= 2) =>
        /\ parsed_response.type = "tool_call"
        /\ parsed_response.tool = Strip(FirstToolBlock(agent_response).group)
        /\ ~FirstParamBlock(BeforeSecondToolBlock(agent_response)).found
              => parsed_response.parameters = EmptyMap
        /\ (~ReSearch(BeforeSecondToolBlock(agent_response), T_FINAL_O, T_FINAL_C, 1).found
              /\ parsed_response.tool # <<"send_email">>)
              => ~parsed_response.final_tool_call

\* the content is not valid JSON for the decoder the parser uses: json.loads
\* hands back no value for it
DecoderRejects(content) == JsonLoads(Strip(content)).ok # "value"

C10_ParametersAreMap ==
    (pc = "parsed" /\ parsed_response.type = "tool_call") =>
        /\ parsed_response.parameters.kind = "object"
        /\ ~FirstParamBlock(Truncate(agent_response)).found
              => parsed_response.parameters = EmptyMap

FirstFinalBlock(text) == ReSearch(text, T_FINAL_O, T_FINAL_C, 1)
\* a final-call flag block is present in the text and its trimmed,
\* lower-cased content is one of true, yes, 1
StatedFinal(text) ==
    /\ FirstFinalBlock(text).found
    /\ Lower(Strip(FirstFinalBlock(text).group)) \in {<<"true">>, <<"yes">>, <<"1">>}

\* C11 as claimed: for every reply that parses to a ToolCall, whatever the
\* tool name, isFinal is true exactly when a final-call flag block is present
\* in the reply and its trimmed, lower-cased content is one of true, yes, 1.
C11_FinalIsStatedFlag ==
    (pc = "parsed" /\ parsed_response.type = "tool_call") =>
        parsed_response.final_tool_call = StatedFinal(agent_response)

\* C11 amended: for a ToolCall naming send_email isFinal is always true; for
\* every other tool name isFinal is true exactly when the text kept after
\* the cut at the second tool opening tag holds a final-call flag block whose
\* trimmed, lower-cased content is one of true, yes, 1.
C11_FinalFlag ==
    (pc = "parsed" /\ parsed_response.type = "tool_call") =>
        parsed_response.final_tool_call =
            (parsed_response.tool = <<"send_email">>
               \/ StatedFinal(Truncate(agent_response)))

\* C11 witness: a flag written " Yes " on a tool other than send_email has
\* been read as true
C11_Witness ==
    /\ pc = "parsed"
    /\ parsed_response.type = "tool_call"
    /\ parsed_response.tool = <<"get_employee_data">>
    /\ FirstFinalBlock(Truncate(agent_response)).group = <<WS, "Yes", WS>>
    /\ parsed_response.final_tool_call

\* C12: a reply with no complete tool block and with a reasoning block
\* parses to Reasoning carrying the trimmed text of the first reasoning
\* block, also when the text holds an unclosed or stray tool opening tag.
C12_ReasoningOnly ==
    (pc = "parsed" /\ ~HasToolBlock(agent_response) /\ HasReasoningBlock(agent_response)) =>
        parsed_response =
            ReasoningResult(Strip(ReSearch(agent_response, T_REAS_O, T_REAS_C, 1).group))

-----------------------------------------------------------------------------
(* Tool failures (C14) *)

\* the last turn is the tool-result turn of a call that raised
JustFailed ==
    /\ Len(conversation) > 0
    /\ LastTurn.kind = "tool_result"
    /\ invocation.raised

\* C14: when a dispatched tool fails (raises, or is called with missing
\* arguments) and the call was not final, the loop goes on to the next model
\* request.
C14_FailedToolContinues ==
    [][(pc = "loop" /\ JustFailed /\ ~is_final_call) => pc' = "awaiting"]_vars

C14_Step ==
    /\ pc = "dispatching" => result'.exception # "ToolError"
    /\ (pc = "dispatching" /\ invocation'.raised) =>
          /\ invocation'.outcome = "error"
          /\ conversation' = Append(conversation,
                                    Turn("user", "tool_result", tool_name, <<"error">>))
          /\ IF is_final_call'
             THEN pc' = "done" /\ result'.status = "completed"
             ELSE pc' = "loop" /\ result' = result
    /\ (pc = "loop" /\ JustFailed /\ ~is_final_call) =>
          IF iteration_count < max_iterations
          THEN pc' = "awaiting" /\ requests' = requests + 1
          ELSE pc' = "done" /\ result'.status = "timeout"

\* C14 amended: a failure of a dispatched tool never leaves the dispatch; the
\* dispatch returns the error payload, the loop appends it as the tool-result
\* USER turn, and after a call that was not final the loop makes the next
\* model request when the iteration ceiling has not been reached and ends
\* with a timeout when it has.
C14_FailureBecomesPayload == [][C14_Step]_vars

\* C14 witness: a tool call that raised was answered with the error payload
\* and the next model request has been made
C14_Witness ==
    /\ pc = "awaiting"
    /\ JustFailed
    /\ LastTurn.content = <<"error">>
    /\ ~is_final_call

-----------------------------------------------------------------------------
(* Order of the steps of one run (C15) *)

ToolResultTurns ==
    Cardinality({i \in 1..Len(conversation) : conversation[i].kind = "tool_result"})

\* tool calls begun and not yet answered by a tool-result turn
InFlight == executions - ToolResultTurns

\* the USER turns that close an iteration
ClosingKinds == {"tool_result", "tool_error", "response_error", "validation_result"}

\* C15: within one run a tool dispatch begins only after the reply that
\* triggered it has been parsed (and recorded as the last turn), a model
\* request after the first begins only after the previous iteration's USER
\* turn has been appended, and at most one tool call is in flight, namely
\* while the loop waits for the dispatch.
C15_StrictlySequential ==
    /\ InFlight \in {0, 1}
    /\ (pc \in {"loop", "awaiting"}) => InFlight = 0
    /\ pc = "dispatching" =>
          /\ InFlight = 1
          /\ parsed_response = ParseResponse(agent_response)
          /\ parsed_response.type = "tool_call"
          /\ tool_name = parsed_response.tool
          /\ LastTurn = [role |-> "assistant", kind |-> "agent_response",
                         tool |-> <<>>, content |-> agent_response]
    /\ (pc = "awaiting" /\ requests > 1) =>
          /\ Len(conversation) = 1 + 2 * (requests - 1)
          /\ LastTurn.role = "user"
          /\ LastTurn.kind \in ClosingKinds
          /\ conversation[Len(conversation) - 1].role = "assistant"

\* C15 witness: the third model request is under way after two tool calls
\* that were each answered before the next request
C15_Witness ==
    /\ pc = "awaiting"
    /\ requests = 3
    /\ executions = 2
    /\ ToolResultTurns = 2

-----------------------------------------------------------------------------
(* The conversation is append-only (C16) *)

\* C16: in every step of a run the conversation keeps its length or grows,
\* and every turn already in it stays where it is with the same role and
\* content.
C16_AppendOnly ==
    [][/\ Len(conversation') >= Len(conversation)
       /\ \A i \in 1..Len(conversation) : conversation'[i] = conversation[i]]_vars

\* C16 witness: two iterations have appended their turns to the initial one
C16_Witness ==
    /\ pc = "loop"
    /\ Len(conversation) >= 5

-----------------------------------------------------------------------------
(* Error and Reasoning replies (C19) *)

PassKind(type) == IF type = "error" THEN "response_error" ELSE "validation_result"

C19_Step ==
    /\ (/\ pc = "awaiting"
        /\ result'.exception # "ModelRequestError"
        /\ parsed_response'.type \in {"error", "reasoning"}) =>
          /\ conversation' = conversation \o
                <<[role |-> "assistant", kind |-> "agent_response",
                   tool |-> <<>>, content |-> agent_response'],
                  [role |-> "user", kind |-> PassKind(parsed_response'.type),
                   tool |-> <<>>, content |-> <<>>]>>
          /\ pc' = "loop"
          /\ result' = result
          /\ ~is_final_call'
          /\ iteration_count' = iteration_count
          /\ executions' = executions
    /\ (/\ pc = "loop"
        /\ Len(conversation) > 0
        /\ LastTurn.kind \in {"response_error", "validation_result"}) =>
          IF iteration_count < max_iterations
          THEN pc' = "awaiting" /\ iteration_count' = iteration_count + 1
          ELSE pc' = "done" /\ result'.status = "timeout"

\* C19: on a reply parsed as Error the loop appends, after the ASSISTANT
\* turn, exactly one USER turn with the format-correction template, on a
\* reply parsed as Reasoning exactly one USER turn with the
\* validation-acknowledged text; no tool runs, the run is not ended by that
\* reply, the iteration counter is not touched by it, and the loop goes on
\* to the next iteration unless the ceiling is reached.
C19_PassAppendsOneUserTurn == [][C19_Step]_vars

\* C19 witness: an Error reply and then a Reasoning reply have been answered
C19_Witness ==
    /\ pc = "loop"
    /\ Len(conversation) = 5
    /\ conversation[3].kind = "response_error"
    /\ conversation[5].kind = "validation_result"
    /\ iteration_count = 2

-----------------------------------------------------------------------------
(* The budget update of a reply (C18) *)

\* the reply of the scenario: update_expense_budget for E1, FOOD_EXPENSE, 50,
\* increment true, final flag false
UpdateReply ==
    ToolBlock("update_expense_budget") \o ParamBlock(J_UPD) \o FinalBlock("false")

\* the step in which the dispatch of the scenario's reply returns
UpdateDispatched ==
    /\ pc = "dispatching"
    /\ pc' # pc
    /\ agent_response = UpdateReply

Raised50(before, after) ==
    /\ after.exists = before.exists
    /\ after.current_expenses =
         [before.current_expenses EXCEPT !["FOOD_EXPENSE"] = @ + 50]

C18_Step ==
    UpdateDispatched =>
        /\ \A e \in Employees \ {employee_id} : store'[e] = store[e]
        /\ IF invocation'.outcome = "value"
           THEN store[employee_id].exists
                  /\ Raised50(store[employee_id], store'[employee_id])
           ELSE store' = store
        /\ pc' = "loop"
        /\ result' = result
        /\ ~is_final_call'

-----------------------------------------------------------------------------
(* The arguments of a tool invocation (C20) *)

HintExists == possible_duplicate_data # NoneValue

\* the keys the dispatch sets itself or takes away
Overridden ==
    {"final_tool_call", "file_id", "employee_id", "max_iterations"}
      \cup (IF HintExists THEN {"origin_image_base_64", "possible_duplicate_data"} ELSE {})

FromContext ==
    {<<"file_id", ContextFileId>>, <<"employee_id", employee_id>>,
     <<"max_iterations", ToString(max_iterations)>>}

FromHint ==
    IF HintExists
    THEN {<<"origin_image_base_64", OriginImage>>,
          <<"possible_duplicate_data", possible_duplicate_data>>}
    ELSE {}

C20_Step ==
    (pc = "dispatching" /\ pc' # pc) =>
        /\ invocation'.tool = tool_name[1]
        /\ invocation'.kwargs =
             {p \in parsed_response.parameters.members : p[1] \notin Overridden}
               \cup FromContext \cup FromHint
        /\ ~HasKey(invocation'.kwargs, "final_tool_call")
        /\ HasKey(invocation'.kwargs, "origin_image_base_64") <=> HintExists
        /\ HasKey(invocation'.kwargs, "possible_duplicate_data") <=> HintExists

\* C20: every tool invocation receives the reply's parameters without the
\* final_tool_call key, with file_id, employee_id and max_iterations set from
\* the context; the original image and the duplicate payload are among the
\* arguments exactly when a duplicate hint exists.
C20_InvocationArguments == [][C20_Step]_vars

\* C20 witness: a reply that supplied file_id, max_iterations and
\* final_tool_call itself was dispatched in a run with a duplicate hint
C20_Witness ==
    /\ pc = "loop"
    /\ LastTurn.kind = "tool_result"
    /\ parsed_response.parameters = JsonLoads(<<J_SPOOF>>).value
    /\ HintExists
    /\ <<"file_id", ContextFileId>> \in invocation.kwargs
    /\ <<"origin_image_base_64", OriginImage>> \in invocation.kwargs

-----------------------------------------------------------------------------
(* Receipts processed at the same time (C17, checked under SpecTasks) *)

\* the external call of task r will never return
Stuck(r) == task_pc[r] \in {"requesting", "in_tool"} /\ call_stuck[r]

\* task r has a next step of its own to take: it is at the while test, or the
\* reply it waits for has arrived
HasNextStep(r) ==
    \/ task_pc[r] = "ready"
    \/ task_pc[r] = "requesting" /\ ~call_stuck[r]

\* C17: with several receipts processed at the same time, a task whose
\* external call (model request or tool) is stuck does not keep any other
\* task from taking its next step.
C17_StuckCallDoesNotBlock ==
    \A r \in Receipts : \A o \in Receipts \ {r} :
        (Stuck(r) /\ HasNextStep(o)) => ENABLED TaskStep(o)

-----------------------------------------------------------------------------
(* Seeding of the conversation (C21, checked under SpecStart) *)

\* C21: at the start of a run an empty conversation is seeded with exactly
\* one USER turn that names the receipt type and the employee id and holds
\* the duplicate-check instruction exactly when a duplicate hint was passed;
\* a non-empty conversation is left unchanged.
C21_Seeding ==
    [][(pc = "idle" /\ pc' = "loop") =>
         conversation' =
            IF conversation = <<>>
            THEN <<[role |-> "user", kind |-> "initial_user_prompt", tool |-> <<>>,
                    content |-> IF possible_duplicate_data # NoneValue
                                THEN <<receipt_type, employee_id, "duplicate_instruction">>
                                ELSE <<receipt_type, employee_id>>]>>
            ELSE conversation]_vars

\* C21 witness: a run without a hint was seeded with a turn that names the
\* receipt type and the employee and holds no duplicate instruction
C21_Witness ==
    /\ pc = "loop"
    /\ possible_duplicate_data = NoneValue
    /\ Len(conversation) = 1
    /\ conversation[1].kind = "initial_user_prompt"
    /\ conversation[1].content = <<"TRAVEL_EXPENSE", "E2">>

-----------------------------------------------------------------------------
(* The model request (C22) *)

\* C22: every model request is [SYSTEM(system_prompt)] followed by all turns
\* appended so far, in order, where system_prompt is generated from the
\* context at that turn: generated anew for each request, not taken from a
\* value computed before the loop.
C22_PromptRegeneratedEachTurn ==
    pc = "awaiting" =>
        /\ messages =
             <<[role |-> "system", kind |-> "system_prompt", tool |-> <<>>,
                content |-> GenerateSystemPrompt(receipt_type, possible_duplicate_data)]>>
               \o conversation
        /\ prompt_generations = requests

\* C22 amended: every model request is [SYSTEM(system_prompt)] followed by
\* all turns appended so far, in order, where system_prompt is the value
\* generated once before the loop; it equals the prompt the context gives at
\* that turn because the run never changes the fields it is built from.
C22_RequestFromCachedPrompt ==
    pc = "awaiting" =>
        /\ messages =
             <<[role |-> "system", kind |-> "system_prompt", tool |-> <<>>,
                content |-> system_prompt]>> \o conversation
        /\ system_prompt = GenerateSystemPrompt(receipt_type, possible_duplicate_data)
        /\ prompt_generations = 1

\* C22 witness: the second request of a run carries the prompt generated
\* before the loop and the three turns appended so far
C22_Witness ==
    /\ pc = "awaiting"
    /\ requests = 2
    /\ Len(messages) = 4
    /\ messages[1].role = "system"
    /\ prompt_generations = 1

-----------------------------------------------------------------------------
(* Shape of the conversation (C23) *)

RoleAt(i) == IF i % 2 = 1 THEN "user" ELSE "assistant"

\* C23: in a run seeded from an empty conversation, whenever the loop is at
\* its head or has been left after handling its replies, the k iterations
\* made so far have each appended one ASSISTANT turn and then one USER turn:
\* the conversation has 1 + 2k turns, their roles alternate starting with
\* USER, and the last turn is a USER turn.
C23_TurnsAlternate ==
    (pc = "loop" \/ EndedOnReplies) =>
        /\ Len(conversation) = 1 + 2 * iteration_count
        /\ \A i \in 1..Len(conversation) : conversation[i].role = RoleAt(i)
        /\ LastTurn.role = "user"

-----------------------------------------------------------------------------
(* A run only reaches the record of its own employee (C24) *)

\* C24: the employee_id, file_id and max_iterations a tool receives are the
\* values of the run's context, also when the reply's parameters supply other
\* values under these names; the call goes to the store for no other record
\* than the one of the run's employee, and no other employee's record
\* changes.
C24_OwnRecordOnly ==
    [][(pc = "dispatching" /\ pc' # pc) =>
          /\ Get(invocation'.kwargs, "employee_id") = employee_id
          /\ Get(invocation'.kwargs, "file_id") = ContextFileId
          /\ Get(invocation'.kwargs, "max_iterations") = ToString(max_iterations)
          /\ invocation'.keys \subseteq {employee_id}
          /\ \A e \in Employees \ {employee_id} : store'[e] = store[e]]_vars

\* C24 witness: in a run for E2 the reply asked get_employee_data for E1 with
\* a file id and an iteration budget of its own, and the record of E2 was read
C24_Witness ==
    /\ pc = "loop"
    /\ LastTurn.kind = "tool_result"
    /\ employee_id = "E2"
    /\ invocation.tool = "get_employee_data"
    /\ <<"employee_id", "E1">> \in parsed_response.parameters.members
    /\ <<"file_id", "F9">> \in parsed_response.parameters.members
    /\ invocation.keys = {"E2"}

-----------------------------------------------------------------------------
(* Budget updates of two receipts of one employee (C25, under SpecTasks) *)

InitialTotal == EmployeeRecord(TRUE).current_expenses["FOOD_EXPENSE"]

\* the sum of the amounts of the updates written so far
AppliedAmounts ==
    task_updates["F1"] * Amount("F1") + task_updates["F2"] * Amount("F2")

\* C25: with two receipts of the same employee processed in one process,
\* each dispatching update_expense_budget with increment = true for the same
\* expense type, the stored total always is the initial total plus the
\* amounts of all dispatches that have written: no update is lost.
C25_NoLostUpdate == StoredTotal = InitialTotal + AppliedAmounts

\* C25 witness: both receipts have written one update each
C25_Witness ==
    /\ task_updates["F1"] = 1
    /\ task_updates["F2"] = 1
    /\ StoredTotal = InitialTotal + 80

-----------------------------------------------------------------------------
(* update_expense_budget (C26, checked under SpecBudget) *)

ArgEmployee  == Get(invocation.kwargs, "employee_id")
ArgType      == Get(invocation.kwargs, "expense_type")
ArgAmount    == IntOfAmount(Get(invocation.kwargs, "amount"))
ArgIncrement == Get(invocation.kwargs, "increment") = "true"
Succeeded    == invocation'.outcome = "value"

C26_Step ==
    (pc = "call" /\ pc' = "returned") =>
        /\ (~store[ArgEmployee].exists \/ ArgType \notin ExpenseTypes) =>
              invocation'.outcome = "failure"
        /\ ~Succeeded => store' = store
        /\ Succeeded =>
              /\ \A e \in Employees \ {ArgEmployee} : store'[e] = store[e]
              /\ store'[ArgEmployee].exists = store[ArgEmployee].exists
              /\ \A t \in ExpenseTypes \ {ArgType} :
                    store'[ArgEmployee].current_expenses[t] =
                        store[ArgEmployee].current_expenses[t]
              /\ LET current == store[ArgEmployee].current_expenses[ArgType]
                     after   == store'[ArgEmployee].current_expenses[ArgType]
                 IN  IF ArgIncrement
                     THEN after = current + ArgAmount
                     ELSE /\ after = (IF current > ArgAmount THEN current - ArgAmount ELSE 0)
                          /\ after >= 0

-----------------------------------------------------------------------------
(* The run ends after a final tool call whatever its result (C27) *)

\* the reply being dispatched is a final call
FinalDispatch ==
    /\ pc = "dispatching"
    /\ pc' # pc
    /\ (parsed_response.final_tool_call \/ tool_name = <<"send_email">>)

\* C27: after a final tool call the run ends with status completed whatever
\* the tool returned, a value, a failure value or an error payload: the
\* result is appended, the loop is left in that iteration, no further model
\* request is made and the tool is not called again.
C27_FinalCallEndsRun ==
    [][/\ pc # "done"
       /\ FinalDispatch =>
             /\ invocation'.outcome \in {"value", "failure", "error"}
             /\ pc' = "done"
             /\ result' = [status |-> "completed", tool |-> tool_name, exception |-> ""]
             /\ Len(conversation') = Len(conversation) + 1
             /\ requests' = requests
             /\ executions' = executions]_vars

\* C27 witness: send_email returned its failure value and the run is
\* completed
C27_Witness ==
    /\ pc = "done"
    /\ result.status = "completed"
    /\ result.tool = <<"send_email">>
    /\ invocation.ran
    /\ invocation.outcome = "failure"

-----------------------------------------------------------------------------
(* is_duplicate_receipt without a duplicate hint (C28) *)

DuplicateDispatch ==
    /\ pc = "dispatching"
    /\ pc' # pc
    /\ tool_name = <<"is_duplicate_receipt">>

-----------------------------------------------------------------------------
(* The duplicate check comes before the save (C29, checked under SpecUpload) *)

\* C29: the duplicate check of an upload completes before its own record is
\* saved, so its hint never names its own file id; an upload is flagged only
\* with a record whose save happened before its check.
C29_CheckBeforeSave ==
    [][\A u \in Uploads :
         /\ (up_pc[u] = "uploaded" /\ up_pc'[u] = "checked") =>
               /\ u \notin saved_receipts
               /\ up_hint'[u] # NoneValue => up_hint'[u] \in saved_receipts
         /\ (u \in saved_receipts' /\ u \notin saved_receipts) => up_pc[u] = "checked"
         /\ up_hint'[u] # u
         /\ up_pc[u] # "uploaded" => up_hint'[u] = up_hint[u]]_vars

\* C29 witness: F2 was checked after F1 was saved and is flagged with F1,
\* while F3, checked before any save, is not flagged
C29_Witness ==
    /\ up_pc["F1"] = "saved"
    /\ up_pc["F2"] = "saved"
    /\ up_pc["F3"] = "saved"
    /\ up_hint["F1"] = NoneValue
    /\ up_hint["F2"] = "F1"
    /\ up_hint["F3"] = NoneValue

-----------------------------------------------------------------------------
(* Stage checkpoints (C30, checked under SpecStages) *)

KindOf(n) == IF n = 0 THEN "absent" ELSE IF n = 1 THEN "object" ELSE "list"

C30_Step ==
    /\ \A k \in StageKeys :
          /\ stage_store'[k].items = stage_log'[k]
          /\ stage_store'[k].kind = KindOf(Len(stage_log'[k]))
          /\ k # <<stage_last'.file_id, stage_last'.stage>> => stage_store'[k] = stage_store[k]
          /\ Len(stage_store'[k].items) >= Len(stage_store[k].items)
          /\ \A i \in 1..Len(stage_store[k].items) :
                stage_store'[k].items[i] = stage_store[k].items[i]
    /\ stage_last'.file_id = NoneValue => ~stage_last'.returned
    /\ ~stage_last'.returned => stage_store' = stage_store
    /\ stage_last'.returned =>
          LET k == <<stage_last'.file_id, stage_last'.stage>>
          IN  stage_store'[k].items = stage_store[k].items \o <<stage_last'.details>>

====
